---- MODULE Spec2Model ----
(***************************************************************************)
(* Entity-resolution and tiered-merge pipeline of the AI product data      *)
(* repository: Normalizer -> Deduplicator -> ConfidenceGate ->             *)
(* TieredMerger -> canonical store, as laid down in the design documents   *)
(* (data-architecture v2, redesign v3) and the pipeline specification.     *)
(*                                                                         *)
(* Confidences and similarity scores are percentages (0.85 is 85).         *)
(***************************************************************************)
EXTENDS Integers, Sequences, FiniteSets, TLC

VARIABLES
    entities,   \* the canonical store: slug -> CanonicalEntity
    clock,      \* the "now" of the next provenance write
    held,       \* records held for manual resolution (Ambiguous)
    hints,      \* discovery queue: DiscoveredName(name, source)
    before,     \* the store as it was before the last process() call
    last,       \* the last process() call: its record and its MergeOutcome
    proposal,   \* the LLM tool result behind the last record, if it was an enrichment
    inflight,   \* merges begun and not yet committed, one worker each
    manual,     \* the manual edits made to entity files: (slug, field, value)
    snapshot,   \* the entity files the IntegrityValidator reads
    todo,       \* validate_all: the slugs it has still to visit
    report,     \* validate_all: the defects collected so far
    input_name, \* a display name handed to the Normalizer
    slug_result,    \* the slug the Normalizer derived from it
    arg,            \* website: the arguments of a call of a lib function
    ret,            \* website: what the call returned or threw
    selectedSlugs,  \* ComparePageClient: useState<string[]>([])
    searchTerm,     \* ComparePageClient: useState("")
    lastCall,       \* ComparePageClient: the last handler call and the state before it
    products,       \* ProductGrid / SearchPageClient: the products prop
    selectedCategory, \* ProductGrid / SearchPageClient: useState<string | null>(null)
    sortBy,         \* ProductGrid: useState("funding")
    currentPage,    \* ProductGrid: useState(1)
    query,          \* SearchPageClient: useState("")
    selectedCountry, \* SearchPageClient: useState<string | null>(null)
    results,        \* SearchPageClient: the memoized results
    value,          \* SearchBar: useState("")
    timerRef,       \* SearchBar: timerRef.current
    timers,         \* SearchBar: the timeouts set and neither fired nor cleared
    searched,       \* SearchBar: the values onSearch was called with, in order
    mounted,        \* SearchBar: the component is mounted
    changes         \* SearchBar: input changes so far

pipelineVars  == <<entities, clock, held, hints, before, last, proposal>>
workerVars    == <<inflight>>
manualVars    == <<manual>>
validatorVars == <<snapshot, todo, report>>
slugVars      == <<input_name, slug_result>>

callVars      == <<arg, ret>>
compareVars   == <<selectedSlugs, searchTerm, lastCall>>
listVars      == <<products, selectedCategory>>
gridVars      == <<sortBy, currentPage>>
searchVars    == <<query, selectedCountry, results>>
searchBarVars == <<value, timerRef, timers, searched, mounted, changes>>

backendVars == <<pipelineVars, workerVars, manualVars, validatorVars, slugVars>>
websiteVars == <<callVars, compareVars, listVars, gridVars, searchVars, searchBarVars>>

vars == <<backendVars, websiteVars>>

(***************************************************************************)
(* Bounds of the model.                                                    *)
(***************************************************************************)
MaxClock == 3      \* process() calls per behaviour

(***************************************************************************)
(* Data model.                                                             *)
(***************************************************************************)
Null == "null"

Tiers == 1..4

\* source name -> trust tier (one or two sources per tier)
SourceTier ==
    [s \in {"wikidata", "huggingface", "ainav", "llm-enrichment", "indeed"} |->
        CASE s = "wikidata"       -> 1
          [] s = "huggingface"    -> 2
          [] s = "ainav"          -> 2
          [] s = "llm-enrichment" -> 3
          [] s = "indeed"         -> 4]

Sources == DOMAIN SourceTier

\* trust of a tier, in percent
TierConfidence(t) ==
    CASE t = 1 -> 95
      [] t = 2 -> 75
      [] t = 3 -> 50
      [] t = 4 -> 20

INFERENCE_FIELDS == {"category"}
FACTUAL_FIELDS   == {"company_founded_year"}
HiringFields     == {"hiring.positions"}

\* the fixed schema of known entity fields
Fields == INFERENCE_FIELDS \cup FACTUAL_FIELDS \cup HiringFields

Values == {"v1", "v2"}

(***************************************************************************)
(* Normalizer.  Names are sequences of characters; URLs are records of     *)
(* their parts, an empty host standing for an empty or malformed URL.      *)
(***************************************************************************)
LowerCase(c) ==
    CASE c = "A" -> "a"
      [] c = "B" -> "b"
      [] OTHER   -> c

IsSlugChar(c) == c \in {"a", "b", "1"}

\* lower-case, then every run of characters outside [a-z0-9] becomes one hyphen
RECURSIVE Hyphenate(_, _)
Hyphenate(name, acc) ==
    IF name = <<>> THEN acc
    ELSE LET c == LowerCase(Head(name))
         IN  IF IsSlugChar(c)
             THEN Hyphenate(Tail(name), Append(acc, c))
             ELSE IF acc # <<>> /\ acc[Len(acc)] = "-"
                  THEN Hyphenate(Tail(name), acc)
                  ELSE Hyphenate(Tail(name), Append(acc, "-"))

\* only a leading hyphen is trimmed
TrimHyphensLeading(s) ==
    IF s # <<>> /\ Head(s) = "-" THEN Tail(s) ELSE s

TrimHyphens(s) ==
    LET a == IF s # <<>> /\ Head(s) = "-" THEN Tail(s) ELSE s
    IN  IF a # <<>> /\ a[Len(a)] = "-" THEN SubSeq(a, 1, Len(a) - 1) ELSE a

derive_slug(name) == TrimHyphens(Hyphenate(name, <<>>))

HostLower(h) ==
    CASE h = "Example.AI" -> "example.ai"
      [] h = "Other.io"   -> "other.io"
      [] OTHER            -> h

TrackingParams == {"utm_source=x"}
DefaultPorts   == {"80", "443"}

\* lower-cased host, no default port, no tracking query, no trailing slash;
\* null for an empty or malformed URL
NullUrl == [host |-> Null, port |-> "", path |-> "", query |-> ""]

normalize_url(raw) ==
    IF raw.host = "" THEN NullUrl
    ELSE [host  |-> HostLower(raw.host),
          port  |-> IF raw.port \in DefaultPorts THEN "" ELSE raw.port,
          path  |-> IF raw.path = "/" THEN "" ELSE raw.path,
          query |-> IF raw.query \in TrackingParams THEN "" ELSE raw.query]

\* the host of a normalized URL, the key of the domain index
UrlHost(raw) == normalize_url(raw).host

(***************************************************************************)
(* Inputs: the display names and raw URLs that source records carry.       *)
(***************************************************************************)
NameAB  == <<"a", "b">>
NameAb  == <<"A", "b">>
NameBA  == <<"b", "a">>
NameA_B == <<"a", " ", "b">>
NameA1  == <<"a", "1">>

UrlExample  == [host |-> "example.ai", port |-> "", path |-> "", query |-> ""]
UrlExampleT == [host |-> "Example.AI", port |-> "443", path |-> "/", query |-> "utm_source=x"]
UrlOther    == [host |-> "other.io", port |-> "", path |-> "", query |-> ""]
UrlNone     == [host |-> "", port |-> "", path |-> "", query |-> ""]

\* the identity hints (display name, primary URL) of the candidate records
Identities ==
    { [name |-> NameAB,  url |-> UrlExample],
      [name |-> NameAb,  url |-> UrlExampleT],
      [name |-> NameBA,  url |-> UrlOther],
      [name |-> NameBA,  url |-> UrlExample],
      [name |-> NameAB,  url |-> UrlNone],
      [name |-> NameA_B, url |-> UrlNone],
      [name |-> NameA1,  url |-> UrlNone] }

\* name similarity on a 0..100 scale, symmetric, 100 for equal names
SimilarityTable(a, b) ==
    CASE {a, b} = {NameAB, NameAb}   -> 95
      [] {a, b} = {NameA_B, NameAB}  -> 90
      [] {a, b} = {NameA_B, NameBA}  -> 89
      [] {a, b} = {NameA_B, NameAb}  -> 90
      [] {a, b} = {NameA1, NameAB}   -> 92
      [] {a, b} = {NameA1, NameAb}   -> 92
      [] {a, b} = {NameA1, NameBA}   -> 86
      [] OTHER                       -> 40

name_similarity(a, b) == IF a = b THEN 100 ELSE SimilarityTable(a, b)

(***************************************************************************)
(* Canonical entities and provenance.                                      *)
(***************************************************************************)
EmptyVals == [f \in Fields |-> Null]

\* the provenance entries an entity holds for one field
FieldProv(ent, f) == {p \in ent.prov : p.field = f}

Provenance(rec, f, now) ==
    [field       |-> f,
     source_name |-> rec.source_name,
     tier        |-> rec.source_tier,
     confidence  |-> rec.conf[f],
     written_at  |-> now]

\* a write that stores the value and forgets the provenance entry
WriteFieldNoProvenance(rec, f, now) ==
    [value |-> rec.fields[f], prov |-> {}, changed |-> TRUE]

\* a field write: the value together with its one provenance entry
WriteField(rec, f, now) ==
    [value |-> rec.fields[f], prov |-> {Provenance(rec, f, now)}, changed |-> TRUE]

KeepField(ent, f) ==
    [value |-> ent.vals[f], prov |-> FieldProv(ent, f), changed |-> FALSE]

(***************************************************************************)
(* Variants of the merge rules with one rule broken, used to show that the *)
(* properties below depend on the rules.                                   *)
(***************************************************************************)
\* the tier comparison inverted: a less trusted tier overwrites
MergeFieldInverted(ent, rec, f, now) ==
    IF rec.fields[f] = Null THEN KeepField(ent, f)
    ELSE IF rec.source_tier = 4 /\ f \notin HiringFields THEN KeepField(ent, f)
    ELSE IF ent.vals[f] = Null THEN WriteField(rec, f, now)
    ELSE IF rec.source_tier = 3 THEN KeepField(ent, f)
    ELSE IF \E p \in FieldProv(ent, f) : p.tier < rec.source_tier
         THEN WriteField(rec, f, now)
         ELSE KeepField(ent, f)

\* rule 3 forgotten: T3 is merged by the tier comparison alone
MergeFieldNoRule3(ent, rec, f, now) ==
    IF rec.fields[f] = Null THEN KeepField(ent, f)
    ELSE IF rec.source_tier = 4 /\ f \notin HiringFields THEN KeepField(ent, f)
    ELSE IF ent.vals[f] = Null THEN WriteField(rec, f, now)
    ELSE IF \E p \in FieldProv(ent, f) : p.tier > rec.source_tier
         THEN WriteField(rec, f, now)
         ELSE KeepField(ent, f)

\* rule 1 forgotten: every tier only fills empty fields
MergeFieldFillOnly(ent, rec, f, now) ==
    IF rec.fields[f] = Null THEN KeepField(ent, f)
    ELSE IF rec.source_tier = 4 /\ f \notin HiringFields THEN KeepField(ent, f)
    ELSE IF ent.vals[f] = Null THEN WriteField(rec, f, now)
    ELSE KeepField(ent, f)

\* a corroborating record of the same tier refreshes the provenance
MergeFieldRefresh(ent, rec, f, now) ==
    IF rec.fields[f] = Null THEN KeepField(ent, f)
    ELSE IF rec.source_tier = 4 /\ f \notin HiringFields THEN KeepField(ent, f)
    ELSE IF ent.vals[f] = Null THEN WriteField(rec, f, now)
    ELSE IF rec.source_tier = 3 THEN KeepField(ent, f)
    ELSE IF \E p \in FieldProv(ent, f) :
                \/ p.tier > rec.source_tier
                \/ p.tier = rec.source_tier /\ ent.vals[f] = rec.fields[f]
         THEN WriteField(rec, f, now)
         ELSE KeepField(ent, f)

\* rule 2 forgotten: the same tier overwrites (last writer wins)
MergeFieldLastWriter(ent, rec, f, now) ==
    IF rec.fields[f] = Null THEN KeepField(ent, f)
    ELSE IF rec.source_tier = 4 /\ f \notin HiringFields THEN KeepField(ent, f)
    ELSE IF ent.vals[f] = Null THEN WriteField(rec, f, now)
    ELSE IF rec.source_tier = 3 THEN KeepField(ent, f)
    ELSE IF \E p \in FieldProv(ent, f) : p.tier >= rec.source_tier
         THEN WriteField(rec, f, now)
         ELSE KeepField(ent, f)

\* rule 4 forgotten: T4 fills any empty field
MergeFieldNoRule4(ent, rec, f, now) ==
    IF rec.fields[f] = Null THEN KeepField(ent, f)
    ELSE IF ent.vals[f] = Null THEN WriteField(rec, f, now)
    ELSE IF rec.source_tier = 3 THEN KeepField(ent, f)
    ELSE IF \E p \in FieldProv(ent, f) : p.tier > rec.source_tier
         THEN WriteField(rec, f, now)
         ELSE KeepField(ent, f)

(***************************************************************************)
(* TieredMerger: the tier rules, field by field.                           *)
(*   rule 1  a more trusted tier overwrites a less trusted one             *)
(*   rule 2  the same tier keeps the existing value (first come)           *)
(*   rule 3  T3 fills empty fields only and never overwrites               *)
(*   rule 4  T4 contributes hiring.* only                                  *)
(*   rule 5  every field write records provenance                          *)
(***************************************************************************)
MergeField(ent, rec, f, now) ==
    IF rec.fields[f] = Null THEN KeepField(ent, f)
    ELSE IF rec.source_tier = 4 /\ f \notin HiringFields THEN KeepField(ent, f)
    ELSE IF ent.vals[f] = Null THEN WriteField(rec, f, now)
    ELSE IF rec.source_tier = 3 THEN KeepField(ent, f)
    ELSE IF \E p \in FieldProv(ent, f) : p.tier > rec.source_tier
         THEN WriteField(rec, f, now)
         ELSE KeepField(ent, f)

fields_changed(ent, rec, now) ==
    {f \in Fields : MergeField(ent, rec, f, now).changed}

\* the next full state of the entity, built whole and swapped in
TieredMerger(ent, rec, now) ==
    [ent EXCEPT
        !.vals = [f \in Fields |-> MergeField(ent, rec, f, now).value],
        !.prov = UNION {MergeField(ent, rec, f, now).prov : f \in Fields}]

(***************************************************************************)
(* Deduplicator: domain, then slug, then fuzzy name.                       *)
(***************************************************************************)
SimThreshold == 85
MinMargin    == 5

NoSlug == <<>>

NoMatch == [kind |-> "NoMatch", slug |-> NoSlug, candidates |-> {}]
Match(s) == [kind |-> "Match", slug |-> s, candidates |-> {s}]
Ambiguous(c) == [kind |-> "Ambiguous", slug |-> NoSlug, candidates |-> c]

SlugsByHost(store, host) ==
    IF host = Null THEN {} ELSE {s \in DOMAIN store : store[s].host = host}

Score(store, name, s) == name_similarity(name, store[s].name)

FuzzyAbove(store, name) ==
    {s \in DOMAIN store : Score(store, name, s) > SimThreshold}

\* the best score always wins, however close the runner-up
FuzzyMatchNoMargin(store, name) ==
    LET above == FuzzyAbove(store, name)
    IN  IF above = {} THEN NoMatch
        ELSE Match(CHOOSE s \in above :
                       \A t \in above : Score(store, name, s) >= Score(store, name, t))

FuzzyMatch(store, name) ==
    LET above == FuzzyAbove(store, name)
    IN  IF above = {} THEN NoMatch
        ELSE LET best == CHOOSE s \in above :
                            \A t \in above : Score(store, name, s) >= Score(store, name, t)
                 rest == above \ {best}
             IN  IF \A t \in rest :
                        Score(store, name, best) - Score(store, name, t) >= MinMargin
                 THEN Match(best)
                 ELSE Ambiguous(above)

\* the domain is not looked up
DeduplicatorNoDomain(store, name, url) ==
    IF derive_slug(name) \in DOMAIN store THEN Match(derive_slug(name))
    ELSE FuzzyMatch(store, name)

\* the slug is looked up before the domain
DeduplicatorSlugFirst(store, name, url) ==
    LET byHost == SlugsByHost(store, UrlHost(url))
        slug   == derive_slug(name)
    IN  IF slug \in DOMAIN store THEN Match(slug)
        ELSE IF Cardinality(byHost) = 1 THEN Match(CHOOSE s \in byHost : TRUE)
        ELSE IF byHost # {} THEN Ambiguous(byHost)
        ELSE FuzzyMatch(store, name)

Deduplicator(store, name, url) ==
    LET byHost == SlugsByHost(store, UrlHost(url))
        slug   == derive_slug(name)
    IN  IF Cardinality(byHost) = 1 THEN Match(CHOOSE s \in byHost : TRUE)
        ELSE IF byHost # {} THEN Ambiguous(byHost)
        ELSE IF slug \in DOMAIN store THEN Match(slug)
        ELSE FuzzyMatch(store, name)

(***************************************************************************)
(* ConfidenceGate: the post-processing filter of the LLM tool result.      *)
(***************************************************************************)
FactualThreshold   == 90
InferenceThreshold == 50

\* field_confidences.get(field, 0.0)
ConfidenceOf(field_confidences, f) ==
    IF f \in DOMAIN field_confidences THEN field_confidences[f] ELSE 0

\* the thresholds taken as strict lower bounds
DroppedAtThreshold(f, conf) ==
    IF f \in FACTUAL_FIELDS /\ conf <= FactualThreshold THEN TRUE
    ELSE IF f \in INFERENCE_FIELDS /\ conf <= InferenceThreshold THEN TRUE
    ELSE FALSE

Dropped(f, conf) ==
    IF f \in FACTUAL_FIELDS /\ conf < FactualThreshold THEN TRUE
    ELSE IF f \in INFERENCE_FIELDS /\ conf < InferenceThreshold THEN TRUE
    ELSE FALSE

\* the fields of the tool result that pass the filter
ConfidenceGate(tool_result, field_confidences) ==
    [f \in Fields |->
        IF tool_result[f] # Null /\ ~Dropped(f, ConfidenceOf(field_confidences, f))
        THEN tool_result[f] ELSE Null]

(***************************************************************************)
(* Source records.                                                         *)
(***************************************************************************)
\* a record of a scraper: every field carries the trust of the source's tier
ScrapedProduct(source, id, payload) ==
    [source_name |-> source,
     source_tier |-> SourceTier[source],
     name        |-> id.name,
     url         |-> id.url,
     fields      |-> payload,
     conf        |-> [f \in Fields |-> TierConfidence(SourceTier[source])]]

\* the gated tool result, wrapped as a tier-3 record about an existing entity
EnrichmentRecord(ent, tool_result, field_confidences) ==
    [source_name |-> "llm-enrichment",
     source_tier |-> 3,
     name        |-> ent.name,
     url         |-> [host  |-> IF ent.host = Null THEN "" ELSE ent.host,
                      port  |-> "", path |-> "", query |-> ""],
     fields      |-> ConfidenceGate(tool_result, field_confidences),
     conf        |-> [f \in Fields |-> ConfidenceOf(field_confidences, f)]]

(***************************************************************************)
(* The records the fetch adapters and the enrichment step hand in.         *)
(***************************************************************************)
Payload(cat, year, hiring) ==
    [f \in Fields |->
        CASE f = "category"             -> cat
          [] f = "company_founded_year" -> year
          [] f = "hiring.positions"     -> hiring]

Payloads ==
    { Payload(Null, "v1", Null),
      Payload(Null, "v2", Null),
      Payload("v2", Null, "v2") }

ScraperSources == Sources \ {"llm-enrichment"}

IdMain == [name |-> NameAB, url |-> UrlExample]

\* every source and payload about one entity, and every identity with one payload
SourceRecords ==
    {ScrapedProduct(src, IdMain, pl) : src \in ScraperSources, pl \in Payloads}
    \cup
    {ScrapedProduct(src, id, Payload(Null, Null, "v1")) :
        src \in {"huggingface", "indeed"}, id \in Identities}

\* tool results of the LLM with their self-reported confidences
Proposals ==
    { [tool_result |-> Payload("v1", Null, Null),
       field_confidences |-> [f \in {"category"} |-> 60]],
      [tool_result |-> Payload(Null, "v1", Null),
       field_confidences |-> [f \in {"company_founded_year"} |-> 70]],
      [tool_result |-> Payload("v2", "v2", Null),
       field_confidences |-> [f \in {"category", "company_founded_year"} |->
                                 IF f = "category" THEN 40 ELSE 90]],
      [tool_result |-> Payload("v1", Null, "v1"),
       field_confidences |-> [f \in {"category"} |-> 50]] }

NoRecord == ScrapedProduct("indeed", [name |-> <<>>, url |-> UrlNone], EmptyVals)

Outcome(kind, slug, changed, candidates, name) ==
    [kind |-> kind, slug |-> slug, fields_changed |-> changed,
     candidates |-> candidates, name |-> name]

(***************************************************************************)
(* process(record) -> MergeOutcome                                         *)
(***************************************************************************)
NewEntity(rec) ==
    [name |-> rec.name, host |-> UrlHost(rec.url), vals |-> EmptyVals, prov |-> {}]

\* the matched entity takes the name of the record
TargetRenamed(store, rec, slug) ==
    [store[slug] EXCEPT !.name = rec.name]

\* the matched entity; a record with a URL gives a host to an entity without one
Target(store, rec, slug) ==
    IF store[slug].host = Null /\ rec.source_tier # 4
    THEN [store[slug] EXCEPT !.host = UrlHost(rec.url)]
    ELSE store[slug]

Put(store, slug, ent) ==
    [s \in DOMAIN store \cup {slug} |-> IF s = slug THEN ent ELSE store[s]]

\* an Ambiguous record is merged into one of its candidates
processForceMerge(rec) ==
    LET d    == Deduplicator(entities, rec.name, rec.url)
        slug == derive_slug(rec.name)
        to   == IF d.kind = "Ambiguous" THEN CHOOSE s \in d.candidates : TRUE ELSE d.slug
    IN  /\ clock < MaxClock
        /\ clock' = clock + 1
        /\ before' = entities
        /\ IF d.kind = "NoMatch" /\ rec.source_tier = 4
           THEN /\ hints' = hints \cup {[name |-> rec.name, source |-> rec.source_name]}
                /\ UNCHANGED <<entities, held>>
                /\ last' = [rec |-> rec,
                            outcome |-> Outcome("Discovered", NoSlug, {}, {}, rec.name)]
           ELSE IF d.kind = "NoMatch"
           THEN /\ entities' = Put(entities, slug, TieredMerger(NewEntity(rec), rec, clock))
                /\ UNCHANGED <<held, hints>>
                /\ last' = [rec |-> rec,
                            outcome |-> Outcome("Created", slug,
                                fields_changed(NewEntity(rec), rec, clock), {}, <<>>)]
           ELSE LET ent == Target(entities, rec, to)
                IN  /\ entities' = Put(entities, to, TieredMerger(ent, rec, clock))
                    /\ UNCHANGED <<held, hints>>
                    /\ last' = [rec |-> rec,
                                outcome |-> Outcome("Merged", to,
                                    fields_changed(ent, rec, clock), {}, <<>>)]

process(rec) ==
    LET d    == Deduplicator(entities, rec.name, rec.url)
        slug == derive_slug(rec.name)
    IN  /\ clock < MaxClock
        /\ clock' = clock + 1
        /\ before' = entities
        /\ IF d.kind = "Ambiguous"
           THEN /\ held' = held \cup {rec}
                /\ UNCHANGED <<entities, hints>>
                /\ last' = [rec |-> rec,
                            outcome |-> Outcome("Ambiguous", NoSlug, {}, d.candidates, <<>>)]
           ELSE IF d.kind = "NoMatch" /\ rec.source_tier = 4
           THEN /\ hints' = hints \cup {[name |-> rec.name, source |-> rec.source_name]}
                /\ UNCHANGED <<entities, held>>
                /\ last' = [rec |-> rec,
                            outcome |-> Outcome("Discovered", NoSlug, {}, {}, rec.name)]
           ELSE IF d.kind = "NoMatch"
           THEN /\ entities' = Put(entities, slug, TieredMerger(NewEntity(rec), rec, clock))
                /\ UNCHANGED <<held, hints>>
                /\ last' = [rec |-> rec,
                            outcome |-> Outcome("Created", slug,
                                fields_changed(NewEntity(rec), rec, clock), {}, <<>>)]
           ELSE LET ent == Target(entities, rec, d.slug)
                IN  /\ entities' = Put(entities, d.slug, TieredMerger(ent, rec, clock))
                    /\ UNCHANGED <<held, hints>>
                    /\ last' = [rec |-> rec,
                                outcome |-> Outcome("Merged", d.slug,
                                    fields_changed(ent, rec, clock), {}, <<>>)]

NoProposal == [tool_result |-> EmptyVals, field_confidences |-> <<>>]

\* a fetch adapter hands in a record
Ingest ==
    /\ \E rec \in SourceRecords : process(rec)
    /\ proposal' = NoProposal
    /\ UNCHANGED <<workerVars, manualVars, validatorVars, slugVars, websiteVars>>

\* the enrichment step: tool result -> ConfidenceGate -> tier-3 record -> process
Enrich ==
    /\ \E s \in DOMAIN entities, p \in Proposals :
          /\ process(EnrichmentRecord(entities[s], p.tool_result, p.field_confidences))
          /\ proposal' = p
    /\ UNCHANGED <<workerVars, manualVars, validatorVars, slugVars, websiteVars>>

\* the pipeline before its first record
InitPipeline ==
    /\ entities = <<>>
    /\ clock = 0
    /\ held = {}
    /\ hints = {}
    /\ before = <<>>
    /\ last = [rec |-> NoRecord, outcome |-> Outcome("None", NoSlug, {}, {}, <<>>)]
    /\ proposal = NoProposal
    /\ inflight = {}
    /\ manual = {}

\* no validation pass under way
InitValidator ==
    /\ snapshot = <<>>
    /\ todo = {}
    /\ report = <<>>

NotDerived == <<"?">>

\* no name handed to the Normalizer
InitSlug ==
    /\ input_name = <<>>
    /\ slug_result = NotDerived

NoCall == [f |-> "none"]

\* no lib function called
InitCall ==
    /\ arg = NoCall
    /\ ret = NoCall

\* the compare page not open
InitCompare ==
    /\ selectedSlugs = <<>>
    /\ searchTerm = <<>>
    /\ lastCall = NoCall

\* neither the grid nor the search page open
InitList ==
    /\ products = <<>>
    /\ selectedCategory = Null

InitGrid ==
    /\ sortBy = "funding"
    /\ currentPage = 1

InitSearch ==
    /\ query = <<>>
    /\ selectedCountry = Null
    /\ results = <<>>

\* the search bar not mounted
InitSearchBar ==
    /\ value = <<>>
    /\ timerRef = 0
    /\ timers = {}
    /\ searched = <<>>
    /\ mounted = FALSE
    /\ changes = 0

InitWebsite ==
    InitCall /\ InitCompare /\ InitList /\ InitGrid /\ InitSearch /\ InitSearchBar

Init == InitPipeline /\ InitValidator /\ InitSlug /\ InitWebsite

\* the pipeline at rest
InitBackend == InitPipeline /\ InitValidator /\ InitSlug

Next == Ingest \/ Enrich

Spec == Init /\ [][Next]_vars

(***************************************************************************)
(* The worker pool: a merge is begun by one worker (deduplicate, build the *)
(* next full state of the entity), and later committed (the next state is  *)
(* swapped in) or lost (the worker crashes, the commit fails).  A worker   *)
(* holds exclusive access to its entity from begin to commit.              *)
(***************************************************************************)
MaxMerges == 3     \* merges begun per behaviour

Absent == [name |-> <<>>, host |-> Null, vals |-> EmptyVals, prov |-> {}]

\* what a reader sees of an entity
Visible(store, s) == IF s \in DOMAIN store THEN store[s] ELSE Absent

IdSecond == [name |-> NameBA, url |-> UrlOther]

WorkerRecords ==
    {ScrapedProduct(src, IdMain, pl) :
        src \in {"wikidata", "huggingface", "ainav"}, pl \in Payloads}
    \cup
    {ScrapedProduct("huggingface", IdSecond, pl) : pl \in Payloads}

InFlight(rec, d, now) ==
    LET to  == IF d.kind = "Match" THEN d.slug ELSE derive_slug(rec.name)
        ent == IF d.kind = "Match" THEN Target(entities, rec, to) ELSE NewEntity(rec)
    IN  [slug |-> to,
         rec  |-> rec,
         kind |-> IF d.kind = "Match" THEN "Merged" ELSE "Created",
         seen |-> Visible(entities, to),
         ent  |-> ent,
         at   |-> now,
         next |-> TieredMerger(ent, rec, now)]

\* the entity with the first field of the record merged and no other
PartialMerge(m) ==
    LET carried == {f \in Fields : m.rec.fields[f] # Null}
        first   == IF carried = {} THEN carried
                   ELSE {CHOOSE f \in carried : TRUE}
    IN  [m.ent EXCEPT
            !.vals = [f \in Fields |-> IF f \in first THEN m.next.vals[f]
                                                     ELSE m.ent.vals[f]],
            !.prov = {q \in m.next.prov : q.field \in first}
                        \cup {q \in m.ent.prov : q.field \notin first}]

\* the worker writes the fields into the entity file one by one
BeginMergeInPlace(rec) ==
    LET d == Deduplicator(entities, rec.name, rec.url)
        m == InFlight(rec, d, clock)
    IN  /\ clock < MaxMerges
        /\ d.kind \in {"Match", "NoMatch"}
        /\ \A o \in inflight : o.slug # m.slug
        /\ clock' = clock + 1
        /\ inflight' = inflight \cup {m}
        /\ entities' = Put(entities, m.slug, PartialMerge(m))
        /\ UNCHANGED <<held, hints, before, last, proposal>>
        /\ UNCHANGED <<manualVars, validatorVars, slugVars, websiteVars>>

\* the worker does not wait for exclusive access to the entity
BeginMergeNoLock(rec) ==
    LET d == Deduplicator(entities, rec.name, rec.url)
        m == InFlight(rec, d, clock)
    IN  /\ clock < MaxMerges
        /\ d.kind \in {"Match", "NoMatch"}
        /\ clock' = clock + 1
        /\ inflight' = inflight \cup {m}
        /\ UNCHANGED <<entities, held, hints, before, last, proposal>>
        /\ UNCHANGED <<manualVars, validatorVars, slugVars, websiteVars>>

BeginMerge(rec) ==
    LET d == Deduplicator(entities, rec.name, rec.url)
        m == InFlight(rec, d, clock)
    IN  /\ clock < MaxMerges
        /\ d.kind \in {"Match", "NoMatch"}
        /\ \A o \in inflight : o.slug # m.slug
        /\ clock' = clock + 1
        /\ inflight' = inflight \cup {m}
        /\ UNCHANGED <<entities, held, hints, before, last, proposal>>
        /\ UNCHANGED <<manualVars, validatorVars, slugVars, websiteVars>>

\* the next full state is swapped in
CommitMerge(m) ==
    /\ entities' = Put(entities, m.slug, m.next)
    /\ inflight' = inflight \ {m}
    /\ before' = entities
    /\ last' = [rec |-> m.rec,
                outcome |-> Outcome(m.kind, m.slug,
                                fields_changed(m.ent, m.rec, m.at), {}, <<>>)]
    /\ UNCHANGED <<clock, held, hints, proposal>>
    /\ UNCHANGED <<manualVars, validatorVars, slugVars, websiteVars>>

\* the worker crashes or its commit fails: the record is lost to this run
FailMerge(m) ==
    /\ inflight' = inflight \ {m}
    /\ before' = entities
    /\ last' = [rec |-> m.rec, outcome |-> Outcome("Failed", m.slug, {}, {}, <<>>)]
    /\ UNCHANGED <<entities, clock, held, hints, proposal>>
    /\ UNCHANGED <<manualVars, validatorVars, slugVars, websiteVars>>

Begin == \E rec \in WorkerRecords : BeginMerge(rec)

Commit == \E m \in inflight : CommitMerge(m)

Fail == \E m \in inflight : FailMerge(m)

NextWorkers == Begin \/ Commit \/ Fail

SpecWorkers == Init /\ [][NextWorkers]_vars

(***************************************************************************)
(* Manual edits: a maintainer changes the value of a field in an entity    *)
(* file by hand, between two runs of the pipeline.                         *)
(***************************************************************************)
MaxEdits == 1      \* manual edits per behaviour

ManualEntry(s, f, v) == [slug |-> s, field |-> f, value |-> v]

\* the value is changed in the file; the field's entry in meta.provenance is
\* left as it is or taken out with it
ManualEdit(s, f, v, keep) ==
    /\ Cardinality(manual) < MaxEdits
    /\ entities[s].vals[f] # v
    /\ entities' = [entities EXCEPT
                        ![s].vals[f] = v,
                        ![s].prov = IF keep THEN @ ELSE {q \in @ : q.field # f}]
    /\ manual' = {e \in manual : e.slug # s \/ e.field # f}
                    \cup {ManualEntry(s, f, v)}
    /\ UNCHANGED <<clock, held, hints, before, last, proposal>>
    /\ UNCHANGED <<workerVars, validatorVars, slugVars, websiteVars>>

Edit ==
    \E s \in DOMAIN entities, f \in Fields, v \in Values, keep \in BOOLEAN :
        ManualEdit(s, f, v, keep)

NextManual == Ingest \/ Enrich \/ Edit

SpecManual == Init /\ [][NextManual]_vars

(***************************************************************************)
(* IntegrityValidator: a read-only pass over the entity files.             *)
(***************************************************************************)
MaxRefs == 2       \* cross-entity references per entity file

RefFields == {"competitors", "based_on", "used_by"}

SlugAB   == derive_slug(NameAB)
SlugBA   == derive_slug(NameBA)
SlugGone == derive_slug(NameA1)

Reference(f, s) == [field |-> f, slug |-> s]

\* an entity file as the validator reads it: the fields, the keys of
\* meta.provenance, the slugs in its reference fields
EntityFile(vals, keys, refs) == [vals |-> vals, prov |-> keys, refs |-> refs]

EntityFiles ==
    {EntityFile(vals, keys, refs) :
        vals \in Payloads \cup {EmptyVals},
        keys \in SUBSET Fields,
        refs \in {r \in SUBSET {Reference(f, s) : f \in RefFields,
                                                   s \in {SlugAB, SlugBA, SlugGone}} :
                     Cardinality(r) <= MaxRefs}}

\* the second file: sound, with a value that has no provenance, with a
\* reference to a slug that no file has
SecondFiles ==
    { EntityFile(Payload(Null, "v1", Null), {"company_founded_year"},
                 {Reference("based_on", SlugAB)}),
      EntityFile(Payload(Null, "v1", Null), {}, {}),
      EntityFile(EmptyVals, {}, {Reference("used_by", SlugGone)}) }

Snapshots ==
    {[s \in {SlugAB} |-> e] : e \in EntityFiles}
    \cup
    {[s \in {SlugAB, SlugBA} |-> IF s = SlugAB THEN e ELSE o] :
        e \in EntityFiles, o \in SecondFiles}

Defect(kind, s, f, ref) == [kind |-> kind, entity |-> s, field |-> f, ref |-> ref]

\* every field without provenance is reported, populated or not
ProvenanceDefectsUnpopulated(store, s) ==
    {Defect("populated-without-provenance", s, f, NoSlug) :
        f \in {g \in Fields : g \notin store[s].prov}}

\* a value with no provenance is a defect
ProvenanceDefects(store, s) ==
    {Defect("populated-without-provenance", s, f, NoSlug) :
        f \in {g \in Fields : store[s].vals[g] # Null /\ g \notin store[s].prov}}

\* the slugs of competitors / based_on / used_by all exist
ReferenceDefects(store, s) ==
    {Defect("dangling-reference", s, r.field, r.slug) :
        r \in {q \in store[s].refs : q.slug \notin DOMAIN store}}

RECURSIVE Listed(_)
Listed(S) ==
    IF S = {} THEN <<>>
    ELSE LET d == CHOOSE x \in S : TRUE IN <<d>> \o Listed(S \ {d})

\* validate_all, one entity file per step; the defects accumulate
ValidateEntity(s) ==
    /\ todo' = todo \ {s}
    /\ report' = report \o Listed(ProvenanceDefects(snapshot, s))
                        \o Listed(ReferenceDefects(snapshot, s))
    /\ UNCHANGED <<snapshot, pipelineVars, workerVars, manualVars, slugVars, websiteVars>>

Validate == \E s \in todo : ValidateEntity(s)

InitSnapshot ==
    /\ InitPipeline
    /\ InitSlug
    /\ InitWebsite
    /\ snapshot \in Snapshots
    /\ todo = DOMAIN snapshot
    /\ report = <<>>

SpecValidator == InitSnapshot /\ [][Validate]_vars

(***************************************************************************)
(* The Normalizer called on raw display names.                             *)
(***************************************************************************)
MaxNameLen == 4    \* characters of a display name

\* a lower-case letter, an upper-case letter, a digit, a blank, a hyphen
NameChars == {"a", "B", "1", " ", "-"}

RawNames == UNION {[1..n -> NameChars] : n \in 0..MaxNameLen}

DeriveSlug ==
    /\ slug_result = NotDerived
    /\ slug_result' = derive_slug(input_name)
    /\ UNCHANGED <<input_name, pipelineVars, workerVars, manualVars, validatorVars, websiteVars>>

InitRawName ==
    /\ InitPipeline
    /\ InitValidator
    /\ InitWebsite
    /\ input_name \in RawNames
    /\ slug_result = NotDerived

SpecSlug == InitRawName /\ [][DeriveSlug]_vars

(***************************************************************************)
(* Website, lib/data.ts: the loaders of the product and company files.     *)
(* A string is a sequence of characters; ".json" stands for its five       *)
(* characters, no other character of the model being one of them.          *)
(***************************************************************************)
MaxSlugLen == 3    \* characters of a slug handed to a loader or of a file name

\* a lower-case letter, a digit, the hyphen; an upper-case letter, the dot,
\* the slash, the extension
PathChars == {"a", "9", "-", "A", ".", "/", ".json"}

Strings(chars, n) == UNION {[1..k -> chars] : k \in 0..n}

\* [a-z0-9-]
InSlugClass(c) == c \in {"a", "9", "-"}

\* /[a-z0-9-]+/.test(slug): the pattern without its anchors
SlugPatternUnanchored(slug) ==
    \E i \in 1..Len(slug) : InSlugClass(slug[i])

\* /^[a-z0-9-]+$/.test(slug)
SlugPattern(slug) ==
    /\ Len(slug) >= 1
    /\ \A i \in 1..Len(slug) : InSlugClass(slug[i])

DATA_DIR      == << <<"data">> >>
PRODUCTS_DIR  == Append(DATA_DIR, <<"products">>)
COMPANIES_DIR == Append(DATA_DIR, <<"companies">>)

\* the segments of a relative path, split at the slashes
RECURSIVE Segments(_, _, _)
Segments(s, cur, acc) ==
    IF s = <<>> THEN Append(acc, cur)
    ELSE IF Head(s) = "/" THEN Segments(Tail(s), <<>>, Append(acc, cur))
    ELSE Segments(Tail(s), Append(cur, Head(s)), acc)

\* path.join normalizes: empty and "." segments go, ".." takes one back
RECURSIVE Normalize(_, _)
Normalize(segs, stack) ==
    IF segs = <<>> THEN stack
    ELSE LET g == Head(segs)
         IN  IF g = <<>> \/ g = <<".">> THEN Normalize(Tail(segs), stack)
             ELSE IF g = <<".", ".">>
                  THEN Normalize(Tail(segs),
                                 IF stack = <<>> THEN stack
                                 ELSE SubSeq(stack, 1, Len(stack) - 1))
                  ELSE Normalize(Tail(segs), Append(stack, g))

PathJoin(dir, rel) == Normalize(Segments(rel, <<>>, <<>>), dir)

NoFile == <<>>

Threw(msg)  == [threw |-> msg, read |-> NoFile]
ReadOf(file) == [threw |-> "none", read |-> file]

LoadBySlug(dir, slug) ==
    IF ~SlugPattern(slug) THEN Threw("Invalid slug")
    ELSE ReadOf(PathJoin(dir, slug \o <<".json">>))

getProductBySlug(slug) == LoadBySlug(PRODUCTS_DIR, slug)

getCompanyBySlug(slug) == LoadBySlug(COMPANIES_DIR, slug)

Loaders == {"getProductBySlug", "getCompanyBySlug"}

DirOf(f) == IF f = "getProductBySlug" THEN PRODUCTS_DIR ELSE COMPANIES_DIR

\* a page calls a loader with the slug of its route
CallLoader ==
    /\ arg.f \in Loaders
    /\ ret = NoCall
    /\ ret' = IF arg.f = "getProductBySlug" THEN getProductBySlug(arg.slug)
                                            ELSE getCompanyBySlug(arg.slug)
    /\ UNCHANGED <<arg, backendVars, compareVars, listVars, gridVars,
                   searchVars, searchBarVars>>

InitLoader ==
    /\ InitBackend
    /\ InitCompare /\ InitList /\ InitGrid /\ InitSearch /\ InitSearchBar
    /\ arg \in {[f |-> f, slug |-> s] : f \in Loaders, s \in Strings(PathChars, MaxSlugLen)}
    /\ ret = NoCall

SpecLoader == InitLoader /\ [][CallLoader]_vars

\* f.endsWith(".json")
EndsWithJson(f) == Len(f) >= 1 /\ f[Len(f)] = ".json"

\* f.replace(".json", ""): the first occurrence goes
RECURSIVE ReplaceJson(_)
ReplaceJson(f) ==
    IF f = <<>> THEN <<>>
    ELSE IF Head(f) = ".json" THEN Tail(f)
    ELSE <<Head(f)>> \o ReplaceJson(Tail(f))

\* the files are listed under their names, suffix and all
getAllSlugsWithSuffix(files) == {f \in files : EndsWithJson(f)}

\* files: the names readdirSync returns
getAllSlugs(files) == {ReplaceJson(f) : f \in {g \in files : EndsWithJson(g)}}

locales == {"en", "zh"}

generateStaticParams(files) ==
    {[locale |-> l, slug |-> g] : l \in locales, g \in getAllSlugs(files)}

\* the names a file of a directory can have
FileNames == Strings(PathChars \ {"/"}, MaxSlugLen)

\* the build renders the page of one of the listed parameters
RenderListed ==
    /\ arg.f = "generateStaticParams"
    /\ ret = NoCall
    /\ \E p \in generateStaticParams(arg.files) :
          ret' = [param |-> p, page |-> LoadBySlug(DirOf(arg.loader), p.slug)]
    /\ UNCHANGED <<arg, backendVars, compareVars, listVars, gridVars,
                   searchVars, searchBarVars>>

\* a directory that holds one file
InitListing ==
    /\ InitBackend
    /\ InitCompare /\ InitList /\ InitGrid /\ InitSearch /\ InitSearchBar
    /\ arg \in {[f |-> "generateStaticParams", loader |-> l, files |-> {name}] :
                   l \in Loaders, name \in FileNames}
    /\ ret = NoCall

SpecListing == InitListing /\ [][RenderListed]_vars

(***************************************************************************)
(* Website, lib/utils.ts: localized.  A JavaScript value is its type and   *)
(* its content.                                                            *)
(***************************************************************************)
JsUndefined == [t |-> "undefined", v |-> ""]
JsNull      == [t |-> "object", v |-> "null"]
JsString(x) == [t |-> "string", v |-> x]
JsNumber(x) == [t |-> "number", v |-> x]

JsValues == {JsUndefined, JsNull, JsString(""), JsString("Cursor"),
             JsString("zh:Cursor"), JsNumber("0")}

\* Boolean(x)
Truthy(x) ==
    CASE x.t = "undefined" -> FALSE
      [] x.t = "object"    -> FALSE
      [] x.t = "string"    -> x.v # ""
      [] x.t = "number"    -> x.v # "0"

\* `${field}_zh`
ZhKey(field) ==
    CASE field = "name"        -> "name_zh"
      [] field = "description" -> "description_zh"

\* x ?? y
Coalesce(x, y) == IF x = JsNull \/ x = JsUndefined THEN y ELSE x

\* the zh value is taken whenever it is a string
localizedAnyString(item, locale, field) ==
    IF locale = "zh" /\ item[ZhKey(field)].t = "string"
    THEN item[ZhKey(field)]
    ELSE Coalesce(item[field], JsString(""))

localized(item, locale, field) ==
    IF locale = "zh" /\ item[ZhKey(field)].t = "string" /\ Truthy(item[ZhKey(field)])
    THEN item[ZhKey(field)]
    ELSE Coalesce(item[field], JsString(""))

\* the entries of the index: a missing key reads as undefined
Items == [{"name", "name_zh", "description", "description_zh"} -> JsValues]

CallLocalized ==
    /\ arg.f = "localized"
    /\ ret = NoCall
    /\ ret' = [f |-> "localized", out |-> localized(arg.item, arg.locale, arg.field)]
    /\ UNCHANGED <<arg, backendVars, compareVars, listVars, gridVars,
                   searchVars, searchBarVars>>

InitLocalized ==
    /\ InitBackend
    /\ InitCompare /\ InitList /\ InitGrid /\ InitSearch /\ InitSearchBar
    /\ arg \in {[f |-> "localized", item |-> i, locale |-> l, field |-> k] :
                    i \in Items, l \in {"en", "zh"}, k \in {"name", "description"}}
    /\ ret = NoCall

SpecLocalized == InitLocalized /\ [][CallLocalized]_vars

(***************************************************************************)
(* Website, ComparePageClient: the products selected for comparison.       *)
(***************************************************************************)
Range(q) == {q[i] : i \in 1..Len(q)}

\* s.toLowerCase()
ToLowerCase(s) == [i \in 1..Len(s) |-> IF s[i] = "A" THEN "a" ELSE s[i]]

\* s.trim() is the empty string
Blank(s) == \A i \in 1..Len(s) : s[i] = " "

\* s.includes(term)
Includes(s, term) ==
    \E i \in 1..(Len(s) + 1) :
        /\ i + Len(term) - 1 <= Len(s)
        /\ SubSeq(s, i, i + Len(term) - 1) = term

\* q.filter(keep), keep being the set of the elements kept
RECURSIVE Filter(_, _)
Filter(q, keep) ==
    IF q = <<>> THEN <<>>
    ELSE IF Head(q) \in keep THEN <<Head(q)>> \o Filter(Tail(q), keep)
    ELSE Filter(Tail(q), keep)

\* q.slice(from, to), indices from 0
Slice(q, from, to) ==
    SubSeq(q, from + 1, IF to < Len(q) THEN to ELSE Len(q))

NoName == <<"null">>

IndexEntry(slug, name, name_zh) == [slug |-> slug, name |-> name, name_zh |-> name_zh]

\* the products prop of the compare page
CompareProducts ==
    << IndexEntry("p1", <<"a">>, NoName),
       IndexEntry("p2", <<"a", "b">>, NoName),
       IndexEntry("p3", <<"A", "b">>, NoName),
       IndexEntry("p4", <<"b", " ", "a">>, NoName),
       IndexEntry("p5", <<"b", "a">>, NoName),
       IndexEntry("p6", <<"a", "a">>, NoName),
       IndexEntry("p7", <<"b">>, <<"cn">>) >>

\* what the user types into the input
SearchTerms == {<<>>, <<" ">>, <<"a">>, <<"A">>, <<" ", "a">>, <<"b">>, <<"cn">>}

MaxSuggestions == 5
MaxSelected    == 3

\* the products shown under the input, the selected ones among them
searchResultsUnfiltered(list, slugs, term) ==
    IF Blank(term) THEN <<>>
    ELSE Slice(Filter(list,
                      {p \in Range(list) :
                          \/ Includes(ToLowerCase(p.name), ToLowerCase(term))
                          \/ (p.name_zh # NoName /\ Includes(p.name_zh, ToLowerCase(term)))}),
               0, MaxSuggestions)

searchResults(list, slugs, term) ==
    IF Blank(term) THEN <<>>
    ELSE Slice(Filter(list,
                      {p \in Range(list) :
                          /\ p.slug \notin Range(slugs)
                          /\ \/ Includes(ToLowerCase(p.name), ToLowerCase(term))
                             \/ (p.name_zh # NoName /\ Includes(p.name_zh, ToLowerCase(term)))}),
               0, MaxSuggestions)

\* products.filter((p) => selectedSlugs.includes(p.slug))
selected(list, slugs) == Filter(list, {p \in Range(list) : p.slug \in Range(slugs)})

Call(f, slug) ==
    [f |-> f, slug |-> slug, slugsBefore |-> selectedSlugs, termBefore |-> searchTerm]

\* a slug is added without looking whether it is selected
addProductTwice(f, slug) ==
    /\ IF Len(selectedSlugs) < MaxSelected
       THEN /\ selectedSlugs' = Append(selectedSlugs, slug)
            /\ searchTerm' = <<>>
       ELSE UNCHANGED <<selectedSlugs, searchTerm>>
    /\ lastCall' = Call(f, slug)
    /\ UNCHANGED <<backendVars, callVars, listVars, gridVars, searchVars, searchBarVars>>

\* addProduct(slug) and addCompany(slug)
addProduct(f, slug) ==
    /\ IF Len(selectedSlugs) < MaxSelected /\ slug \notin Range(selectedSlugs)
       THEN /\ selectedSlugs' = Append(selectedSlugs, slug)
            /\ searchTerm' = <<>>
       ELSE UNCHANGED <<selectedSlugs, searchTerm>>
    /\ lastCall' = Call(f, slug)
    /\ UNCHANGED <<backendVars, callVars, listVars, gridVars, searchVars, searchBarVars>>

\* removeProduct(slug) and removeCompany(slug)
removeProduct(f, slug) ==
    /\ selectedSlugs' = Filter(selectedSlugs, Range(selectedSlugs) \ {slug})
    /\ lastCall' = Call(f, slug)
    /\ UNCHANGED <<searchTerm, backendVars, callVars, listVars, gridVars,
                   searchVars, searchBarVars>>

\* onChange of the input
setSearchTerm(v) ==
    /\ searchTerm' = v
    /\ lastCall' = Call("setSearchTerm", "")
    /\ UNCHANGED <<selectedSlugs, backendVars, callVars, listVars, gridVars,
                   searchVars, searchBarVars>>

Slugs == {p.slug : p \in Range(CompareProducts)}

\* the handlers called with any slug
AddCalled == \E f \in {"addProduct", "addCompany"}, slug \in Slugs : addProduct(f, slug)

RemoveCalled ==
    \E f \in {"removeProduct", "removeCompany"}, slug \in Slugs : removeProduct(f, slug)

TermSet == \E v \in SearchTerms : setSearchTerm(v)

\* the page as the user drives it: the input is rendered while fewer than
\* three are selected, a suggestion and a badge are clicked where shown
TypeTerm ==
    /\ Len(selectedSlugs) < MaxSelected
    /\ \E v \in SearchTerms : setSearchTerm(v)

\* the suggestions rendered under the input
Dropdown ==
    IF Len(selectedSlugs) < MaxSelected
    THEN searchResults(products, selectedSlugs, searchTerm)
    ELSE <<>>

ClickSuggestion ==
    \E p \in Range(Dropdown) : addProduct("clickSuggestion", p.slug)

ClickRemove ==
    \E p \in Range(selected(products, selectedSlugs)) :
        removeProduct("clickRemove", p.slug)

InitComparePage ==
    /\ InitBackend
    /\ InitCall /\ InitCompare /\ InitGrid /\ InitSearch /\ InitSearchBar
    /\ products = CompareProducts
    /\ selectedCategory = Null

SpecCompareCalls == InitComparePage /\ [][AddCalled \/ RemoveCalled \/ TermSet]_vars

SpecCompare == InitComparePage /\ [][TypeTerm \/ ClickSuggestion \/ ClickRemove]_vars

(***************************************************************************)
(* Website, ProductGrid and CompanyGrid: category tabs, sort buttons and   *)
(* pages of the catalogue.  CompanyGrid is ProductGrid over companies with *)
(* one more sort key, "year".                                              *)
(***************************************************************************)
MaxPerCategory == 13
MaxSecond      == 2

ITEMS_PER_PAGE == 12

Letters == <<"a", "b", "c">>

Ord(c) == CHOOSE i \in 1..Len(Letters) : Letters[i] = c

\* the i-th entry of a category; 0 stands for a missing amount or year
GridItem(cat, i) ==
    [slug |-> <<cat, i>>,
     category |-> cat,
     total_raised_usd |-> (i * 7) % 5,
     founded_year |-> (i * 3) % 4,
     name |-> <<Letters[(i % 3) + 1], Letters[((i \div 3) % 3) + 1]>>]

\* the products (companies) prop: nA entries of category "A", then nB of "B"
Catalogue(nA, nB) ==
    [i \in 1..(nA + nB) |-> IF i <= nA THEN GridItem("A", i) ELSE GridItem("B", i - nA)]

\* the categories prop; no entry has category "C"
categories == <<"A", "B", "C">>

SortKeys == {"funding", "name", "year"}

\* a.localeCompare(b) on names of these letters
RECURSIVE localeCompare(_, _)
localeCompare(a, b) ==
    IF a = <<>> /\ b = <<>> THEN 0
    ELSE IF a = <<>> THEN -1
    ELSE IF b = <<>> THEN 1
    ELSE IF Ord(Head(a)) # Ord(Head(b)) THEN Ord(Head(a)) - Ord(Head(b))
    ELSE localeCompare(Tail(a), Tail(b))

\* the comparator handed to sort
Compare(key, a, b) ==
    CASE key = "funding" -> b.total_raised_usd - a.total_raised_usd
      [] key = "name"    -> localeCompare(a.name, b.name)
      [] key = "year"    -> b.founded_year - a.founded_year

\* Array.prototype.sort, which is stable: an element goes after the ones
\* that compare below it and the ones before it that compare equal
Sort(key, q) ==
    LET rank(i) == 1 + Cardinality({j \in 1..Len(q) :
                                       \/ Compare(key, q[j], q[i]) < 0
                                       \/ Compare(key, q[j], q[i]) = 0 /\ j < i})
    IN  [r \in 1..Len(q) |-> q[CHOOSE i \in 1..Len(q) : rank(i) = r]]

InCategory(list, cat) == {p \in Range(list) : p.category = cat}

filtered ==
    Sort(sortBy,
         IF selectedCategory # Null
         THEN Filter(products, InCategory(products, selectedCategory))
         ELSE products)

\* Math.ceil(filtered.length / ITEMS_PER_PAGE)
totalPages == (Len(filtered) + ITEMS_PER_PAGE - 1) \div ITEMS_PER_PAGE

paged == Slice(filtered, (currentPage - 1) * ITEMS_PER_PAGE, currentPage * ITEMS_PER_PAGE)

\* the "no results" paragraph is rendered
NoResults == Len(paged) = 0

\* the handler called last, with the page and the number of items before it
GridCall(f) == [f |-> f, pageBefore |-> currentPage, countBefore |-> Len(filtered)]

\* a category is selected and the page is left where it was
handleCategoryChangeKeepingPage(cat) ==
    /\ selectedCategory' = cat
    /\ lastCall' = GridCall("handleCategoryChange")
    /\ UNCHANGED <<products, sortBy, currentPage, selectedSlugs, searchTerm,
                   backendVars, callVars, searchVars, searchBarVars>>

handleCategoryChange(cat) ==
    /\ selectedCategory' = cat
    /\ currentPage' = 1
    /\ lastCall' = GridCall("handleCategoryChange")
    /\ UNCHANGED <<products, sortBy, selectedSlugs, searchTerm,
                   backendVars, callVars, searchVars, searchBarVars>>

\* the "All" tab
ClickAll == handleCategoryChange(Null)

\* a category tab, rendered for the categories that have entries
ClickCategory ==
    \E cat \in Range(categories) :
        /\ Cardinality(InCategory(products, cat)) # 0
        /\ handleCategoryChange(cat)

\* a sort button
ClickSort ==
    \E s \in SortKeys :
        /\ sortBy' = s
        /\ lastCall' = GridCall("setSortBy")
        /\ UNCHANGED <<currentPage, listVars, selectedSlugs, searchTerm,
                       backendVars, callVars, searchVars, searchBarVars>>

\* Pagination calls onPageChange with a page of 1..totalPages
ClickPage ==
    \E p \in 1..totalPages :
        /\ currentPage' = p
        /\ lastCall' = GridCall("setCurrentPage")
        /\ UNCHANGED <<sortBy, listVars, selectedSlugs, searchTerm,
                       backendVars, callVars, searchVars, searchBarVars>>

InitGridPage ==
    /\ InitBackend
    /\ InitCall /\ InitCompare /\ InitGrid /\ InitSearch /\ InitSearchBar
    /\ \E nA \in 0..MaxPerCategory, nB \in 0..MaxSecond : products = Catalogue(nA, nB)
    /\ selectedCategory = Null

SpecGrid == InitGridPage /\ [][ClickAll \/ ClickCategory \/ ClickSort \/ ClickPage]_vars

(***************************************************************************)
(* Website, SearchPageClient with its FilterPanel: the results shown for   *)
(* a query, a category and a country.                                      *)
(***************************************************************************)
MaxCompanies == 6

CompanyNames == << <<"a">>, <<"A", "b">>, <<"b">>, <<"b", " ", "a">> >>

\* the i-th company of the index; the fourth of every four has no country
Company(i) ==
    [slug |-> i,
     name |-> CompanyNames[(i % 4) + 1],
     category |-> IF i % 2 = 0 THEN "A" ELSE "B",
     country |-> CASE i % 4 = 0 -> "" [] i % 4 = 3 -> "CN" [] OTHER -> "US"]

\* the companies prop
Companies(n) == [i \in 1..n |-> Company(i)]

\* categories.map((cat) => cat.id); no company has category "C"
FilterCategories == {"A", "B", "C"}

\* Array.from(new Set(companies.map((c) => c.country).filter(Boolean)))
countries(list) == {c.country : c \in Range(list)} \ {""}

\* what SearchBar hands to onSearch
Queries == {<<>>, <<" ">>, <<"a">>, <<"A">>, <<"b">>, <<"b", " ">>, <<"c">>}

\* Fuse's match of a query against an entry, taken on the name alone: the
\* query occurs in the name, letter case apart
FuseMatches(q, item) == Includes(ToLowerCase(item.name), ToLowerCase(q))

\* searchIndex.search(query).map((r) => r.item)
FuseSearch(list, q) == Filter(list, {c \in Range(list) : FuseMatches(q, c)})

\* the results are not narrowed by the country
ResultsOfAnyCountry(list, q, cat, country) ==
    LET found == IF ~Blank(q) THEN FuseSearch(list, q) ELSE list
    IN  IF cat # Null THEN Filter(found, {c \in Range(found) : c.category = cat})
        ELSE found

\* the results memo
Results(list, q, cat, country) ==
    LET found    == IF ~Blank(q) THEN FuseSearch(list, q) ELSE list
        ofCat    == IF cat # Null
                    THEN Filter(found, {c \in Range(found) : c.category = cat})
                    ELSE found
    IN  IF country # Null
        THEN Filter(ofCat, {c \in Range(ofCat) : c.country = country})
        ELSE ofCat

\* a render of the page with new criteria
Render(q, cat, country) ==
    /\ query' = q
    /\ selectedCategory' = cat
    /\ selectedCountry' = country
    /\ results' = Results(products, q, cat, country)

handleSearch(q) ==
    /\ Render(q, selectedCategory, selectedCountry)
    /\ UNCHANGED products

\* onSearch called with any query
Search ==
    /\ \E q \in Queries : handleSearch(q)
    /\ UNCHANGED <<backendVars, callVars, compareVars, gridVars, searchBarVars>>

\* a category button: selects, or deselects the selected one
ToggleCategory ==
    /\ \E cat \in FilterCategories :
          Render(query, IF selectedCategory = cat THEN Null ELSE cat, selectedCountry)
    /\ UNCHANGED <<products, backendVars, callVars, compareVars, gridVars, searchBarVars>>

\* a country button
ToggleCountry ==
    /\ \E country \in countries(products) :
          Render(query, selectedCategory, IF selectedCountry = country THEN Null ELSE country)
    /\ UNCHANGED <<products, backendVars, callVars, compareVars, gridVars, searchBarVars>>

\* the clear button, rendered while a filter is selected
ClearFilters ==
    /\ selectedCategory # Null \/ selectedCountry # Null
    /\ Render(query, Null, Null)
    /\ UNCHANGED <<products, backendVars, callVars, compareVars, gridVars, searchBarVars>>

InitSearchPage ==
    /\ InitBackend
    /\ InitCall /\ InitCompare /\ InitGrid /\ InitSearchBar
    /\ \E n \in 0..MaxCompanies : products = Companies(n)
    /\ query = <<>>
    /\ selectedCategory = Null
    /\ selectedCountry = Null
    /\ results = products

SpecSearch ==
    InitSearchPage /\ [][Search \/ ToggleCategory \/ ToggleCountry \/ ClearFilters]_vars

(***************************************************************************)
(* Website, SearchBar on the search page: the input value and the timeout  *)
(* that hands it to onSearch.  A pending timeout is a record of its id and *)
(* of the value its callback closed over; it may fire at any later step.   *)
(***************************************************************************)
MaxChanges == 4

\* what the input can hold
InputValues == {<<>>, <<"a">>, <<"a", "b">>}

\* clearTimeout(id)
clearTimeout(pending, id) == {t \in pending : t.id # id}

\* the effect: setTimeout(() => onSearch(v), debounceMs), its id kept in the ref
Effect(pending, v) ==
    /\ changes' = changes + 1
    /\ timerRef' = changes + 1
    /\ timers' = pending \cup {[id |-> changes + 1, value |-> v]}

\* the effect of a new value runs and the timeout of the last one stays
RerenderNoCleanup(v) ==
    /\ value' = v
    /\ Effect(timers, v)

\* the cleanup of the last effect runs, then the effect of the new value
Rerender(v) ==
    /\ value' = v
    /\ Effect(clearTimeout(timers, timerRef), v)

\* the component is mounted with an empty input
Mount ==
    /\ ~mounted
    /\ changes < MaxChanges
    /\ mounted' = TRUE
    /\ value' = <<>>
    /\ Effect(timers, <<>>)
    /\ UNCHANGED <<searched, backendVars, callVars, compareVars, listVars, gridVars,
                   searchVars>>

\* onChange of the input with another value
Change ==
    /\ mounted
    /\ changes < MaxChanges
    /\ \E v \in InputValues \ {value} : Rerender(v)
    /\ UNCHANGED <<mounted, searched, backendVars, callVars, compareVars, listVars,
                   gridVars, searchVars>>

\* the component is unmounted: the cleanup of the last effect runs
Unmount ==
    /\ mounted
    /\ mounted' = FALSE
    /\ timers' = clearTimeout(timers, timerRef)
    /\ UNCHANGED <<value, timerRef, searched, changes, backendVars, callVars,
                   compareVars, listVars, gridVars, searchVars>>

\* the delay of a pending timeout has passed: its callback calls onSearch
\* with the value it closed over
Fire ==
    /\ \E t \in timers :
          /\ timers' = timers \ {t}
          /\ searched' = Append(searched, [q |-> t.value, id |-> t.id, input |-> value,
                                            wasMounted |-> mounted])
          /\ handleSearch(t.value)
    /\ UNCHANGED <<value, timerRef, mounted, changes, backendVars, callVars,
                   compareVars, gridVars>>

InitSearchBarPage ==
    /\ InitBackend
    /\ InitCall /\ InitCompare /\ InitGrid /\ InitSearchBar
    /\ products = Companies(MaxCompanies)
    /\ query = <<>>
    /\ selectedCategory = Null
    /\ selectedCountry = Null
    /\ results = products

NextSearchBar == Mount \/ Change \/ Unmount \/ Fire

\* the event loop runs the callback of a timeout whose delay has passed
SpecSearchBar == InitSearchBarPage /\ [][NextSearchBar]_vars /\ WF_vars(Fire)

(***************************************************************************)
(* Website, LanguageSwitcher: the path of the page in the other language.  *)
(***************************************************************************)
MaxPathLen == 5

UrlChars == {"/", "e", "n", "z", "h", "t"}

\* what usePathname returns: a path that starts with "/"
Pathnames == {q \in Strings(UrlChars, MaxPathLen) : Len(q) >= 1 /\ q[1] = "/"}

\* the characters of a locale
LocaleChars(l) == IF l = "en" THEN <<"e", "n">> ELSE <<"z", "h">>

\* (en|zh) at the second character
LocaleAt2(path) ==
    /\ Len(path) >= 3
    /\ \E l \in locales : SubSeq(path, 2, 3) = LocaleChars(l)

\* /^\/(en|zh)/ matches, with nothing asked of what follows
MatchesLocalePrefix(path) ==
    /\ Len(path) >= 1 /\ path[1] = "/"
    /\ LocaleAt2(path)

\* /^\/(en|zh)(?=\/|$)/ matches
MatchesLocale(path) ==
    /\ Len(path) >= 1 /\ path[1] = "/"
    /\ LocaleAt2(path)
    /\ Len(path) = 3 \/ path[4] = "/"

\* pathname.replace(/^\/(en|zh)(?=\/|$)/, `/${target}`)
buildPath(pathname, target) ==
    IF MatchesLocale(pathname)
    THEN <<"/">> \o LocaleChars(target) \o SubSeq(pathname, 4, Len(pathname))
    ELSE pathname

\* a link of the switcher is rendered
CallBuildPath ==
    /\ arg.f = "buildPath"
    /\ ret = NoCall
    /\ ret' = [href |-> buildPath(arg.pathname, arg.target)]
    /\ UNCHANGED <<arg, backendVars, compareVars, listVars, gridVars,
                   searchVars, searchBarVars>>

InitSwitcher ==
    /\ InitBackend
    /\ InitCompare /\ InitList /\ InitGrid /\ InitSearch /\ InitSearchBar
    /\ arg \in {[f |-> "buildPath", pathname |-> q, target |-> l] :
                   q \in Pathnames, l \in locales}
    /\ ret = NoCall

SpecSwitcher == InitSwitcher /\ [][CallBuildPath]_vars

(***************************************************************************)
(* Website, lib/utils.ts: formatCurrency.  The text returned is a sequence *)
(* of characters.                                                          *)
(***************************************************************************)
MaxDelta == 2

Thousand == 1000
Million  == 1000000
Billion  == 1000000000

DigitChars == <<"0", "1", "2", "3", "4", "5", "6", "7", "8", "9">>

\* the decimal digits of a natural number
RECURSIVE Digits(_)
Digits(n) ==
    IF n < 10 THEN <<DigitChars[n + 1]>>
    ELSE Digits(n \div 10) \o <<DigitChars[(n % 10) + 1]>>

\* (amount / unit).toFixed(0): the nearest integer, the larger of two
ToFixed0(amount, unit) == Digits((amount + unit \div 2) \div unit)

\* the amounts half way between two tenths of a billion whose quotient by
\* 1_000_000_000, as a double, is not below the half
BillionTiesUp ==
    {1050000000, 1250000000, 1350000000, 1550000000, 1750000000, 1850000000}

\* (amount / 1_000_000_000).toFixed(1)
ToFixed1Billions(amount) ==
    LET tenth  == Billion \div 10
        rest   == amount % tenth
        tenths == (amount \div tenth)
                  + (IF \/ 2 * rest > tenth
                        \/ 2 * rest = tenth /\ amount \in BillionTiesUp
                     THEN 1 ELSE 0)
    IN  Digits(tenths \div 10) \o <<".">> \o Digits(tenths % 10)

formatCurrency(amount) ==
    IF amount >= Billion THEN <<"$">> \o ToFixed1Billions(amount) \o <<"B">>
    ELSE IF amount >= Million THEN <<"$">> \o ToFixed0(amount, Million) \o <<"M">>
    ELSE IF amount >= Thousand THEN <<"$">> \o ToFixed0(amount, Thousand) \o <<"K">>
    ELSE <<"$">> \o Digits(amount)

\* amounts at and around the places where the unit or the rounding changes
AmountMarks ==
    {0, 500, 1000, 1500, 999500, 1000000, 1500000, 999500000,
     1000000000, 1050000000, 1250000000, 1950000000, 2000000000}

Amounts == {m + d : m \in AmountMarks, d \in (-MaxDelta)..MaxDelta} \cap Nat

\* a table cell renders an amount
CallFormatCurrency ==
    /\ arg.f = "formatCurrency"
    /\ ret = NoCall
    /\ ret' = [text |-> formatCurrency(arg.amount)]
    /\ UNCHANGED <<arg, backendVars, compareVars, listVars, gridVars,
                   searchVars, searchBarVars>>

InitCurrency ==
    /\ InitBackend
    /\ InitCompare /\ InitList /\ InitGrid /\ InitSearch /\ InitSearchBar
    /\ arg \in {[f |-> "formatCurrency", amount |-> a] : a \in Amounts}
    /\ ret = NoCall

SpecCurrency == InitCurrency /\ [][CallFormatCurrency]_vars

(***************************************************************************)
(* Properties.  Each is stated over the last process() call: its record    *)
(* (last.rec), its outcome, the store before it and the store after it.    *)
(***************************************************************************)
\* the last call merged its record into an entity or created one from it
Acted == last.outcome.kind \in {"Merged", "Created"}

LastSlug == last.outcome.slug

\* the target entity before and after the last call
Pre == IF LastSlug \in DOMAIN before THEN before[LastSlug] ELSE NewEntity(last.rec)

Post == entities[LastSlug]

Carried == {f \in Fields : last.rec.fields[f] # Null}

\* C1 (tier monotonicity): for every entity and field that a tier N has
\* written, a merge of a record of tier N or numerically higher leaves the
\* value as it is; and the tier recorded for a written field never becomes
\* less trusted and the field never unset, so that this holds for every
\* later merge, over all sequences of records of tiers 1 to 4.
TierMonotonicity ==
    \A s \in DOMAIN before : \A f \in Fields : \A p \in FieldProv(before[s], f) :
        /\ s \in DOMAIN entities
        /\ entities[s].vals[f] # Null
        /\ \A q \in FieldProv(entities[s], f) : q.tier <= p.tier
        /\ last.rec.source_tier >= p.tier => entities[s].vals[f] = before[s].vals[f]

\* a record of an equally or less trusted tier carried another value for a
\* written field, and the value stayed
WitnessTierMonotonicity ==
    /\ last.outcome.kind = "Merged"
    /\ \E f \in Carried : \E p \in FieldProv(Pre, f) :
          /\ last.rec.source_tier >= p.tier
          /\ last.rec.fields[f] # Pre.vals[f]
          /\ Post.vals[f] = Pre.vals[f]

\* C2 (tier-3 non-destructiveness): a merge of a tier-3 record leaves the
\* value and the provenance of every field that already held a value
\* unchanged, whatever tier wrote it; it writes into unset fields only.
Tier3NonDestructive ==
    (Acted /\ last.rec.source_tier = 3) =>
        \A f \in Fields :
            /\ Pre.vals[f] # Null =>
                  /\ Post.vals[f] = Pre.vals[f]
                  /\ FieldProv(Post, f) = FieldProv(Pre, f)
            /\ f \in last.outcome.fields_changed => Pre.vals[f] = Null

\* a tier-3 record carried a field that a less trusted tier (4) had written
WitnessTier3NonDestructive ==
    /\ last.outcome.kind = "Merged"
    /\ last.rec.source_tier = 3
    /\ \E f \in Carried : \E p \in FieldProv(Pre, f) :
          /\ p.tier > 3
          /\ last.rec.fields[f] # Pre.vals[f]
          /\ Post.vals[f] = Pre.vals[f]

\* C3 (provenance completeness): in every entity, a field with a value has
\* exactly one provenance entry and a field without a value has none.
ProvenanceComplete ==
    \A s \in DOMAIN entities : \A f \in Fields :
        IF entities[s].vals[f] # Null
        THEN Cardinality(FieldProv(entities[s], f)) = 1
        ELSE FieldProv(entities[s], f) = {}

\* a merge has overwritten a written field of an entity that has an unset field
WitnessProvenanceComplete ==
    /\ last.outcome.kind = "Merged"
    /\ \E f \in last.outcome.fields_changed : Pre.vals[f] # Null
    /\ \E g \in Fields : Post.vals[g] = Null

\* C4 (overwrite by a more trusted tier): a tier-1 or tier-2 record that
\* carries a field which is unset, or written by a numerically higher tier,
\* replaces the value by its own and the provenance by one entry naming its
\* source, tier and confidence, written at the time of the merge.
OverwriteByTrustedTier ==
    (Acted /\ last.rec.source_tier \in {1, 2}) =>
        \A f \in Carried :
            (\/ Pre.vals[f] = Null
             \/ \E p \in FieldProv(Pre, f) : p.tier > last.rec.source_tier) =>
                /\ Post.vals[f] = last.rec.fields[f]
                /\ FieldProv(Post, f) =
                      {[field       |-> f,
                        source_name |-> last.rec.source_name,
                        tier        |-> last.rec.source_tier,
                        confidence  |-> TierConfidence(last.rec.source_tier),
                        written_at  |-> clock - 1]}
                /\ f \in last.outcome.fields_changed

\* a tier-1 or tier-2 record replaced another value written by a less
\* trusted tier
WitnessOverwriteByTrustedTier ==
    /\ last.outcome.kind = "Merged"
    /\ last.rec.source_tier \in {1, 2}
    /\ \E f \in Carried : \E p \in FieldProv(Pre, f) :
          /\ p.tier > last.rec.source_tier
          /\ Pre.vals[f] # last.rec.fields[f]
          /\ Post.vals[f] = last.rec.fields[f]

\* C5 (first writer at a tier wins): a record that carries a field which
\* the target holds with provenance of an equal or more trusted tier leaves
\* the value and the whole provenance entry (source_name, tier, confidence,
\* written_at) as they are, also when it carries the stored value.
FirstWriterNoOp ==
    Acted =>
        \A f \in Carried :
            (\E p \in FieldProv(Pre, f) : p.tier <= last.rec.source_tier) =>
                /\ Post.vals[f] = Pre.vals[f]
                /\ FieldProv(Post, f) = FieldProv(Pre, f)
                /\ f \notin last.outcome.fields_changed

\* another source of the same tier corroborated the stored value
WitnessFirstWriterNoOp ==
    /\ last.outcome.kind = "Merged"
    /\ \E f \in Carried : \E p \in FieldProv(Pre, f) :
          /\ p.tier = last.rec.source_tier
          /\ p.source_name # last.rec.source_name
          /\ Pre.vals[f] = last.rec.fields[f]
          /\ FieldProv(Post, f) = {p}

\* C6 (idempotence): merging the record of the last call into its entity
\* once more gives the entity as it is: no value changes and no provenance
\* entry is written again.
MergeIdempotent ==
    Acted =>
        /\ TieredMerger(Target(entities, last.rec, LastSlug), last.rec, clock) = Post
        /\ fields_changed(Post, last.rec, clock) = {}

\* a record was merged into an entity that holds its fields from an earlier
\* merge of the same source and values, and the call changed nothing
WitnessMergeIdempotent ==
    /\ last.outcome.kind = "Merged"
    /\ Carried # {}
    /\ \A f \in Carried : \E p \in FieldProv(Pre, f) :
          /\ p.source_name = last.rec.source_name
          /\ p.written_at < clock - 1
          /\ Pre.vals[f] = last.rec.fields[f]
    /\ last.outcome.fields_changed = {}
    /\ entities = before

\* process() has been called
Called == last.outcome.kind # "None"

Enriched == Called /\ last.rec.source_name = "llm-enrichment"

GateThresholds ==
    Enriched =>
        \A f \in DOMAIN proposal.field_confidences :
            proposal.tool_result[f] # Null =>
                LET conf == proposal.field_confidences[f]
                    kept == last.rec.fields[f] # Null
                IN  /\ f \in INFERENCE_FIELDS => (kept <=> conf >= 50)
                    /\ f \in FACTUAL_FIELDS => (kept <=> conf >= 90)
                    /\ kept => last.rec.fields[f] = proposal.tool_result[f]
                    /\ (kept /\ Acted /\ Pre.vals[f] = Null) =>
                          /\ Post.vals[f] = proposal.tool_result[f]
                          /\ \A p \in FieldProv(Post, f) :
                                p.tier = 3 /\ p.confidence = conf
                          /\ FieldProv(Post, f) # {}
                    /\ (~kept /\ Acted) =>
                          /\ Post.vals[f] = Pre.vals[f]
                          /\ FieldProv(Post, f) = FieldProv(Pre, f)

\* a proposal with an inferential field below 0.5 and a factual field at 0.9,
\* both unset before: the first stays unset, the second is written at tier 3
WitnessGateThresholds ==
    /\ Enriched /\ Acted
    /\ \E f \in INFERENCE_FIELDS \cap DOMAIN proposal.field_confidences :
          /\ proposal.tool_result[f] # Null
          /\ proposal.field_confidences[f] < 50
          /\ Pre.vals[f] = Null /\ Post.vals[f] = Null
    /\ \E g \in FACTUAL_FIELDS \cap DOMAIN proposal.field_confidences :
          /\ proposal.field_confidences[g] = 90
          /\ Pre.vals[g] = Null
          /\ Post.vals[g] = proposal.tool_result[g]
          /\ \E p \in FieldProv(Post, g) : p.tier = 3

\* C9 (no confidence, no acceptance): the gate's output holds only fields
\* that were proposed and have an entry in the confidence map, whatever
\* their class and also when they are in neither enumeration.
GateDropsUnscored ==
    Enriched =>
        \A f \in Fields :
            last.rec.fields[f] # Null =>
                /\ proposal.tool_result[f] # Null
                /\ f \in DOMAIN proposal.field_confidences

NoDomainOrSlug ==
    /\ Called
    /\ \A s \in DOMAIN before :
          before[s].host = Null \/ before[s].host # UrlHost(last.rec.url)
    /\ derive_slug(last.rec.name) \notin DOMAIN before

ScoresAbove ==
    {s \in DOMAIN before : name_similarity(last.rec.name, before[s].name) > 85}

LeadsByMargin(s) ==
    \A t \in ScoresAbove \ {s} :
        name_similarity(last.rec.name, before[s].name)
            - name_similarity(last.rec.name, before[t].name) >= 5

FuzzyMargin ==
    NoDomainOrSlug =>
        /\ ScoresAbove = {} => last.outcome.kind \in {"Created", "Discovered"}
        /\ Cardinality(ScoresAbove) > 1 =>
              IF \E s \in ScoresAbove : LeadsByMargin(s)
              THEN /\ last.outcome.kind = "Merged"
                   /\ LastSlug \in ScoresAbove
                   /\ LeadsByMargin(LastSlug)
              ELSE /\ last.outcome.kind = "Ambiguous"
                   /\ last.outcome.candidates = ScoresAbove

\* two entities scored 0.90 and 0.89 against the candidate: Ambiguous
WitnessFuzzyMargin ==
    /\ NoDomainOrSlug
    /\ \E s, t \in ScoresAbove :
          /\ name_similarity(last.rec.name, before[s].name) = 90
          /\ name_similarity(last.rec.name, before[t].name) = 89
    /\ last.outcome.kind = "Ambiguous"

\* C12 (Ambiguous is a held outcome): when the Deduplicator finds a record
\* Ambiguous, process returns the outcome Ambiguous with the candidate slugs,
\* the store is left as it was (no field, no provenance entry, no new
\* entity), and the record is among the records held for resolution.
DedupOfLast == Deduplicator(before, last.rec.name, last.rec.url)

AmbiguousHeld ==
    /\ (Called /\ DedupOfLast.kind = "Ambiguous") =>
          /\ last.outcome.kind = "Ambiguous"
          /\ last.outcome.candidates = DedupOfLast.candidates
          /\ entities = before
          /\ last.rec \in held
    /\ last.outcome.kind = "Ambiguous" =>
          /\ DedupOfLast.kind = "Ambiguous"
          /\ Cardinality(last.outcome.candidates) > 1
          /\ last.outcome.candidates \subseteq DOMAIN before

\* a record carrying a value was found Ambiguous between two entities
WitnessAmbiguousHeld ==
    /\ Called
    /\ DedupOfLast.kind = "Ambiguous"
    /\ \E f \in Fields : last.rec.fields[f] # Null
    /\ Cardinality(DOMAIN before) > 1

\* C15 (one canonical entity per real-world entity): no two entities share a
\* normalized primary-URL host, every entity is stored under the slug of its
\* own name (so no two share a slug), and a call adds an entity only when the
\* Deduplicator found NoMatch: it then adds exactly one, under a slug that
\* was free.
OneEntityPerIdentity ==
    /\ \A s, t \in DOMAIN entities :
          (s # t /\ entities[s].host # Null) => entities[s].host # entities[t].host
    /\ \A s \in DOMAIN entities : derive_slug(entities[s].name) = s
    /\ Called =>
          IF DOMAIN entities # DOMAIN before
          THEN /\ DedupOfLast.kind = "NoMatch"
               /\ last.outcome.kind = "Created"
               /\ LastSlug \notin DOMAIN before
               /\ DOMAIN entities = DOMAIN before \cup {LastSlug}
          ELSE last.outcome.kind # "Created"

\* a record with the host of an existing entity and another name was merged
\* into it, with a second entity in the store
WitnessOneEntityPerIdentity ==
    /\ last.outcome.kind = "Merged"
    /\ before[LastSlug].host = UrlHost(last.rec.url)
    /\ derive_slug(last.rec.name) # LastSlug
    /\ Cardinality(DOMAIN entities) > 1

\* C16 (slug stability): every entity of the store before a call is still in
\* the store after it, under the same slug and with the same name, also when
\* the call overwrote a field of it with the value of a more trusted record.
SlugStability ==
    Called =>
        \A s \in DOMAIN before :
            /\ s \in DOMAIN entities
            /\ entities[s].name = before[s].name
            /\ derive_slug(entities[s].name) = s

\* a more trusted record with another name overwrote a field of an entity
WitnessSlugStability ==
    /\ last.outcome.kind = "Merged"
    /\ last.rec.name # before[LastSlug].name
    /\ \E f \in Fields :
          /\ before[LastSlug].vals[f] # Null
          /\ entities[LastSlug].vals[f] # before[LastSlug].vals[f]

\* C13 (merge atomicity): while a merge is in flight, and after it was lost
\* to a crash or a failed commit, a reader sees its entity as it was before
\* the merge or as it is after the whole merge, never with only some of the
\* record's fields applied; a lost merge leaves the store as it was and a
\* committed merge leaves the entity with every field of the record merged.
MergeAtomicity ==
    /\ \A m \in inflight : Visible(entities, m.slug) \in {m.seen, m.next}
    /\ last.outcome.kind = "Failed" => entities = before
    /\ Acted =>
          /\ \A f \in Fields :
                Post.vals[f] = MergeField(Pre, last.rec, f, 0).value
          /\ \A s \in DOMAIN before \ {LastSlug} : entities[s] = before[s]

\* a merge of a record with two fields is in flight, its entity is seen as
\* before the merge, and another merge was lost
WitnessMergeAtomicity ==
    /\ \E m \in inflight :
          /\ Cardinality({f \in Fields : m.rec.fields[f] # Null}) > 1
          /\ Cardinality({f \in Fields : m.next.vals[f] # m.seen.vals[f]}) > 1
          /\ Visible(entities, m.slug) = m.seen
    /\ last.outcome.kind = "Failed"

\* C14 (per-entity serialization): no two merges in flight are for the same
\* entity, and a committed merge leaves a field as it was when the entity
\* already held it from a record of the same tier: value and provenance of
\* the merge that committed first stay.
PerEntitySerialization ==
    /\ \A m, o \in inflight : m # o => m.slug # o.slug
    /\ \A m \in inflight : Visible(entities, m.slug) = m.seen
    /\ (Acted /\ LastSlug \in DOMAIN before) =>
          \A f \in Fields :
              (/\ last.rec.fields[f] # Null
               /\ before[LastSlug].vals[f] # Null
               /\ \E q \in FieldProv(before[LastSlug], f) :
                     q.tier = last.rec.source_tier) =>
                  /\ Post.vals[f] = before[LastSlug].vals[f]
                  /\ FieldProv(Post, f) = FieldProv(before[LastSlug], f)

\* a merge carrying another value for a field the entity held from the same
\* tier was committed, while a merge for another entity was in flight
WitnessPerEntitySerialization ==
    /\ last.outcome.kind = "Merged"
    /\ \E f \in Fields :
          /\ last.rec.fields[f] # Null
          /\ before[LastSlug].vals[f] # Null
          /\ last.rec.fields[f] # before[LastSlug].vals[f]
          /\ \E q \in FieldProv(before[LastSlug], f) : q.tier = last.rec.source_tier
    /\ \E m \in inflight : m.slug # LastSlug

\* C18 (integrity report is exact): when validate_all has visited every
\* entity file, its report lists exactly once each (entity, field) whose
\* field has a value and no provenance entry, exactly once each reference to
\* a slug that no entity has, and nothing else; and no step of the pass
\* changes an entity file.
Reported(d) == Cardinality({i \in 1..Len(report) : report[i] = d})

ReportExact ==
    todo = {} =>
        /\ \A s \in DOMAIN snapshot : \A f \in Fields :
              Reported(Defect("populated-without-provenance", s, f, NoSlug))
                = IF snapshot[s].vals[f] # Null /\ f \notin snapshot[s].prov
                  THEN 1 ELSE 0
        /\ \A s \in DOMAIN snapshot : \A f \in RefFields :
              \A t \in {SlugAB, SlugBA, SlugGone} :
                  Reported(Defect("dangling-reference", s, f, t))
                    = IF Reference(f, t) \in snapshot[s].refs /\ t \notin DOMAIN snapshot
                      THEN 1 ELSE 0
        /\ \A i \in 1..Len(report) :
              /\ report[i].entity \in DOMAIN snapshot
              /\ \/ /\ report[i].kind = "populated-without-provenance"
                    /\ report[i].field \in Fields
                    /\ report[i].ref = NoSlug
                 \/ /\ report[i].kind = "dangling-reference"
                    /\ report[i].field \in RefFields

IntegrityReportExact == []ReportExact /\ [][snapshot' = snapshot]_vars

\* the pass is over two entity files; its report holds a value without
\* provenance and a dangling reference, and one file had neither
WitnessIntegrityReportExact ==
    /\ todo = {}
    /\ Cardinality(DOMAIN snapshot) = 2
    /\ \E i, j \in 1..Len(report) :
          /\ report[i].kind = "populated-without-provenance"
          /\ report[j].kind = "dangling-reference"
    /\ \E s \in DOMAIN snapshot : \A i \in 1..Len(report) : report[i].entity # s

\* C19 (the merger never overwrites manual edits): every field that was set
\* by a manual edit still holds the manually entered value, whatever records
\* have been merged since.
ManualEditsKept ==
    \A e \in manual : entities[e.slug].vals[e.field] = e.value

SlugValidatedOnLoad ==
    (arg.f \in Loaders /\ ret # NoCall) =>
        IF /\ arg.slug # <<>>
           /\ \A i \in 1..Len(arg.slug) : arg.slug[i] \in {"a", "9", "-"}
        THEN /\ ret.threw = "none"
             /\ ret.read = Append(DirOf(arg.f), arg.slug \o <<".json">>)
        ELSE /\ ret.threw = "Invalid slug"
             /\ ret.read = NoFile

\* a loader was called with a slug that leads out of the data directory
WitnessSlugValidatedOnLoad ==
    /\ arg.f \in Loaders
    /\ ret # NoCall
    /\ arg.slug = <<".", ".", "/">>
    /\ ret.threw = "Invalid slug"

\* C22 (bilingual fallback): localized returns the _zh value of the field
\* exactly when the locale is zh and that value is a non-empty string; in
\* every other case it returns the value of the base field, or the empty
\* string when that is null or undefined.
BilingualFallback ==
    (arg.f = "localized" /\ ret # NoCall) =>
        LET zh   == arg.item[IF arg.field = "name" THEN "name_zh" ELSE "description_zh"]
            base == arg.item[arg.field]
        IN  IF arg.locale = "zh" /\ zh.t = "string" /\ zh.v # ""
            THEN ret.out = zh
            ELSE IF base.t = "undefined" \/ base = JsNull
                 THEN ret.out = JsString("")
                 ELSE ret.out = base

\* the zh name is the empty string and the locale is zh: the base name
WitnessBilingualFallback ==
    /\ arg.f = "localized"
    /\ ret # NoCall
    /\ arg.locale = "zh"
    /\ arg.field = "name"
    /\ arg.item["name_zh"] = JsString("")
    /\ arg.item["name"] = JsString("Cursor")
    /\ ret.out = JsString("Cursor")

\* C23 (compare selection): the selection holds at most 3 slugs and none
\* twice; an add of a selected slug, or while 3 are selected, leaves the
\* selection and the search term as they were, and any other add appends the
\* slug and clears the search term.
CompareSelection ==
    /\ Len(selectedSlugs) <= 3
    /\ \A i, j \in 1..Len(selectedSlugs) :
          selectedSlugs[i] = selectedSlugs[j] => i = j
    /\ lastCall.f \in {"addProduct", "addCompany"} =>
          IF \/ Len(lastCall.slugsBefore) >= 3
             \/ \E i \in 1..Len(lastCall.slugsBefore) :
                   lastCall.slugsBefore[i] = lastCall.slug
          THEN /\ selectedSlugs = lastCall.slugsBefore
               /\ searchTerm = lastCall.termBefore
          ELSE /\ selectedSlugs = lastCall.slugsBefore \o <<lastCall.slug>>
               /\ searchTerm = <<>>

\* an add of a selected slug with two selected and a search term typed
WitnessCompareSelection ==
    /\ lastCall.f = "addCompany"
    /\ Len(lastCall.slugsBefore) = 2
    /\ lastCall.slug = lastCall.slugsBefore[1]
    /\ lastCall.termBefore = <<"a">>
    /\ searchTerm = <<"a">>

\* C24 (suggestions can be added): suggestions are shown only while fewer
\* than 3 products are selected and the search term is not blank, they are
\* at most 5 and none of them is selected, and a click on a shown suggestion
\* appends that product to the selection.
SuggestionsAddable ==
    /\ Dropdown # <<>> =>
          /\ Len(selectedSlugs) < 3
          /\ \E i \in 1..Len(searchTerm) : searchTerm[i] # " "
          /\ Len(Dropdown) <= 5
          /\ \A i \in 1..Len(Dropdown), j \in 1..Len(selectedSlugs) :
                Dropdown[i].slug # selectedSlugs[j]
    /\ lastCall.f = "clickSuggestion" =>
          selectedSlugs = lastCall.slugsBefore \o <<lastCall.slug>>

\* the third product was added by a click on a suggestion for a term that
\* also matches the two selected before it
WitnessSuggestionsAddable ==
    /\ lastCall.f = "clickSuggestion"
    /\ lastCall.slugsBefore = <<"p1", "p2">>
    /\ lastCall.termBefore = <<"a">>
    /\ lastCall.slug = "p6"
    /\ Len(selectedSlugs) = 3

\* C25 (grid pagination): while the filtered list is not empty the current
\* page is one of 1..totalPages and shows between 1 and 12 items; "no
\* results" is shown only for an empty catalogue; a change of category puts
\* the page at 1 and a change of sort key keeps the page and the number of
\* items.
GridPagination ==
    /\ filtered # <<>> =>
          /\ currentPage >= 1
          /\ currentPage <= totalPages
          /\ Len(paged) >= 1
          /\ Len(paged) <= 12
    /\ NoResults => products = <<>>
    /\ lastCall.f = "handleCategoryChange" => currentPage = 1
    /\ lastCall.f = "setSortBy" =>
          /\ currentPage = lastCall.pageBefore
          /\ Len(filtered) = lastCall.countBefore

\* the second page of a category of 13, sorted by name, in a catalogue of 15
WitnessGridPagination ==
    /\ Len(products) = 15
    /\ selectedCategory = "A"
    /\ sortBy = "name"
    /\ currentPage = 2
    /\ Len(paged) = 1
    /\ lastCall.f = "setSortBy"

\* C27 (search results): the results shown are exactly the entries of the
\* catalogue that match the current query (every entry for a blank query)
\* and have the selected category and the selected country, each once,
\* whatever was selected before.
ResultsOfCriteria ==
    /\ \A c \in {products[i] : i \in 1..Len(products)} :
          (\E i \in 1..Len(results) : results[i] = c)
          <=> /\ (\A i \in 1..Len(query) : query[i] = " ") \/ FuseMatches(query, c)
              /\ selectedCategory = Null \/ c.category = selectedCategory
              /\ selectedCountry = Null \/ c.country = selectedCountry
    /\ \A i \in 1..Len(results) : \E j \in 1..Len(products) : results[i] = products[j]
    /\ \A i, j \in 1..Len(results) : results[i] = results[j] => i = j

\* a query, a category and a country are set and leave one company of six
WitnessResultsOfCriteria ==
    /\ Len(products) = 6
    /\ query = <<"b">>
    /\ selectedCategory = "B"
    /\ selectedCountry = "CN"
    /\ Len(results) = 1

\* C26 (search debounce): at most one timeout is pending at any time; every
\* call of onSearch carries the value the input holds when it is made; and
\* if the component stays mounted and the input stays at a value from some
\* change on, onSearch is eventually called with that value by the timeout
\* of that change.
OneTimerOfInput ==
    /\ Cardinality(timers) <= 1
    /\ \A i \in 1..Len(searched) :
          searched[i].wasMounted /\ searched[i].q = searched[i].input

SearchDebounce ==
    /\ []OneTimerOfInput
    /\ \A v \in InputValues, n \in 1..(MaxChanges + 1) :
          <>[](mounted /\ value = v /\ changes = n)
          => <>(/\ searched # <<>>
                /\ searched[Len(searched)].q = v
                /\ searched[Len(searched)].id = n)

\* two values were replaced before their timeouts fired and the third was
\* handed to onSearch
WitnessSearchDebounce ==
    /\ mounted
    /\ changes = 3
    /\ value = <<"a", "b">>
    /\ timers = {}
    /\ Len(searched) = 1
    /\ searched[1].q = <<"a", "b">>
    /\ query = <<"a", "b">>

\* the file a rendered page was listed from
ListedFile == CHOOSE f \in arg.files : TRUE

\* C28 as stated (slug listing round trip): the slug listed for any file
\* "<name>.json" of the directory is accepted by the loader and makes it
\* read that file.
ListingRoundTripAnyName ==
    (arg.f = "generateStaticParams" /\ ret # NoCall) =>
        /\ ret.page.threw = "none"
        /\ ret.page.read = DirOf(arg.loader) \o <<ListedFile>>

\* C28 (slug listing round trip, amended): the slug listed for a file
\* "<name>.json" whose name is made of lower-case letters, digits and
\* hyphens is the name, is accepted by the loader and makes it read that file.
ListingRoundTrip ==
    (/\ arg.f = "generateStaticParams"
     /\ ret # NoCall
     /\ Len(ListedFile) >= 2
     /\ \A i \in 1..(Len(ListedFile) - 1) : ListedFile[i] \in {"a", "9", "-"}) =>
        /\ ret.param.slug = SubSeq(ListedFile, 1, Len(ListedFile) - 1)
        /\ ret.page.threw = "none"
        /\ ret.page.read = DirOf(arg.loader) \o <<ListedFile>>

\* the page of a-.json is rendered for zh
WitnessListingRoundTrip ==
    /\ arg.f = "generateStaticParams"
    /\ arg.files = {<<"a", "-", ".json">>}
    /\ ret # NoCall
    /\ ret.param = [locale |-> "zh", slug |-> <<"a", "-">>]
    /\ ret.page.threw = "none"

\* the pathname starts with the segment of locale l
LeadingSegment(l) ==
    /\ Len(arg.pathname) >= 3
    /\ arg.pathname[1] = "/"
    /\ <<arg.pathname[2], arg.pathname[3]>> = (IF l = "en" THEN <<"e", "n">> ELSE <<"z", "h">>)
    /\ Len(arg.pathname) > 3 => arg.pathname[4] = "/"

\* C29 (language switch): buildPath(target) puts "/" + target in place of a
\* leading "/en" or "/zh" segment and keeps what follows it; a pathname
\* without such a segment is returned as it is; applied again it changes
\* nothing; and from a pathname of the en segment (or of no locale segment)
\* the switch to zh and back to en gives the pathname back.
LanguageSwitch ==
    (arg.f = "buildPath" /\ ret # NoCall) =>
        /\ (LeadingSegment("en") \/ LeadingSegment("zh")) =>
              /\ Len(ret.href) = Len(arg.pathname)
              /\ ret.href[1] = "/"
              /\ <<ret.href[2], ret.href[3]>>
                    = (IF arg.target = "en" THEN <<"e", "n">> ELSE <<"z", "h">>)
              /\ \A i \in 4..Len(arg.pathname) : ret.href[i] = arg.pathname[i]
        /\ ~(LeadingSegment("en") \/ LeadingSegment("zh")) => ret.href = arg.pathname
        /\ buildPath(ret.href, arg.target) = ret.href
        /\ (arg.target = "zh" /\ ~LeadingSegment("zh")) =>
              buildPath(ret.href, "en") = arg.pathname

\* /en/t was switched to zh
WitnessLanguageSwitch ==
    /\ arg.f = "buildPath"
    /\ arg.pathname = <<"/", "e", "n", "/", "t">>
    /\ arg.target = "zh"
    /\ ret # NoCall
    /\ ret.href = <<"/", "z", "h", "/", "t">>

\* the text is "$", a number of one to three digits that is not 0, and the suffix
InUnitRange(text, suffix) ==
    /\ Len(text) >= 3 /\ Len(text) <= 5
    /\ text[1] = "$"
    /\ text[Len(text)] = suffix
    /\ text[2] \in {"1", "2", "3", "4", "5", "6", "7", "8", "9"}
    /\ \A i \in 3..(Len(text) - 1) :
          text[i] \in {"0", "1", "2", "3", "4", "5", "6", "7", "8", "9"}

\* C30 (formatCurrency): an amount from 1,000 up to 999,999,999 is printed
\* as a number between 1 and 999 with K below 1,000,000 and M from there
\* on; an amount from 1,000,000,000 on is printed in B with one decimal; an
\* amount below 1,000 is printed as it is.
CurrencyInUnitRange ==
    (arg.f = "formatCurrency" /\ ret # NoCall) =>
        /\ (arg.amount >= 1000 /\ arg.amount < 1000000) => InUnitRange(ret.text, "K")
        /\ (arg.amount >= 1000000 /\ arg.amount < 1000000000) => InUnitRange(ret.text, "M")
        /\ arg.amount >= 1000000000 =>
              /\ ret.text[Len(ret.text)] = "B"
              /\ ret.text[Len(ret.text) - 2] = "."
        /\ arg.amount < 1000 => ret.text = <<"$">> \o Digits(arg.amount)

====
